---- MODULE Spec2Model ----
(***************************************************************************)
(* Model of the local-folder mirroring engine of liminal                   *)
(* (composables/useLocalSync.ts with the VFS helpers of usePhp.ts).        *)
(*                                                                         *)
(* Every async function of the source is a task whose steps are cut at its *)
(* awaits: one action = the awaited local-store operation taking effect    *)
(* together with the synchronous code that follows it up to the next       *)
(* await.  The VFS calls (php.writeFile, readFileAsBuffer, listFiles) are  *)
(* synchronous in the source and therefore never a step of their own.      *)
(* A file's lastModified is a per-path counter: the source only ever       *)
(* compares timestamps of the same path for equality.                      *)
(*                                                                         *)
(* History fields, which no action reads to decide what to do: `by` in a   *)
(* file of either store (who wrote it last: "ext" the world outside, "init",*)
(* "push" or "poll" the engine's passes; "kept" for a local file that the   *)
(* deletion loop of a pass has failed to remove); `ext`, `retry`, `failed` in an   *)
(* initialSync task; `echo`, `echoed` in a pushVfsToLocal task; `unseen`;  *)
(* `quiet`; `quiesced`; `again`, `upset` in a steady-state pass's task.    *)
(***************************************************************************)
EXTENDS Integers, Sequences, FiniteSets, TLC

VARIABLES
    syncState,        \* ref<SyncState>
    syncError,        \* ref<string>
    directoryHandle,  \* FileSystemDirectoryHandle | null   (TRUE = a handle)
    pollIntervalId,   \* the interval id held by the module (TRUE = an id)
    leakedPollers,    \* intervals still running whose id was overwritten
    vfsWatcherStop,   \* "none" | "idle" | "pending": the watcher the module
                      \* can stop, and whether its debounce timer is armed
    leakedWatchers,   \* watchers still subscribed whose stop function was
                      \* overwritten: [n |-> how many, armed |-> how many of
                      \* them have their debounce timer armed]
    syncLock,         \* let syncLock
    vfsSnapshot,      \* Map<string, number>: path -> fingerprint
    localSnapshot,    \* Map<string, number>: path -> lastModified
    vfs,              \* the runtime's tree under /app: path -> [content, by]
    local,            \* the granted directory: path -> [content, lastModified, by]
    mtime,            \* per path, the last lastModified handed out
    tasks,            \* the async calls in flight, one record per slot
    unseen,           \* history: the localSnapshot keys missing from `seen` when
                      \* the interval callback last finished its loop
    tracking,         \* whether the history of reruns (`quiet`, `again`,
                      \* `upset`) is kept in this behaviour (fixed)
    quiet,            \* history: the kinds of steady-state pass ("push","poll")
                      \* of which a run has ended that was not upset, no
                      \* other pass in flight, with no change to either store
                      \* since
    quiesced,         \* history: no connect() has been called since the module
                      \* was loaded or since disconnect() last returned with
                      \* no picker open
    syncProgress,     \* ref<number>, kept as the fraction <<numerator, denominator>>
    isSupported,      \* typeof window.showDirectoryPicker === 'function' (fixed)
    refused,          \* history: connect() has returned at once for want of
                      \* the picker
    cancelled,        \* history: syncState as it was when connect() last
                      \* returned from a cancelled picker ("": never)
    input,            \* the bytes handed to fnv1a (a Uint8Array)
    digest,           \* what fnv1a has returned for them (<<>>: not called yet)
    vain,             \* history: the paths whose removal has settled while
                      \* the local directory did not hold them
    tree,             \* the paths that can exist in either store (fixed)
    budget            \* events the world outside may still cause: connect()
                      \* calls, changes to either store from outside the
                      \* engine, failing local-store operations

vars == <<syncState, syncError, directoryHandle, pollIntervalId, leakedPollers,
          vfsWatcherStop, leakedWatchers, syncLock, vfsSnapshot, localSnapshot,
          vfs, local, mtime, tasks, unseen, tracking, quiet, quiesced, tree, budget,
          syncProgress, isSupported, input, digest, refused, cancelled, vain>>

----------------------------------------------------------------------------
(* Bounds of the model *)

MaxTasks == 2
MaxEvents == 4
MaxTotal == 21      \* the files of a directory whose contents play no part

(* The project tree: relative paths as sequences of segments, in the order *)
(* in which both enumerations list them.                                   *)
PathSeq == << <<"a.txt">>, <<"src", "b.txt">>, <<"vendor", "x.php">>,
             <<"src", "vendor", "x.php">> >>
Paths == {PathSeq[i] : i \in 1..Len(PathSeq)}
NPaths == Len(PathSeq)

(* File contents are byte sequences. *)
Contents == { <<76>>, <<86>> }

Slots == 1..MaxTasks
Idle == [kind |-> "idle"]

----------------------------------------------------------------------------
(* ContentHasher: fnv1a.  A 32-bit value is kept as <<high 16 bits, low 16  *)
(* bits>> so that no intermediate product leaves the range of the checker's *)
(* integers.                                                                *)

RECURSIVE XorBits(_, _, _)
XorBits(a, b, n) ==
    IF n = 0 THEN 0
    ELSE ((a + b) % 2) + 2 * XorBits(a \div 2, b \div 2, n - 1)

FnvOffsetBasis == <<33052, 40389>>      \* 0x811c9dc5
FnvPrimeLow == 403                      \* 0x01000193 = 2^24 + 0x193

\* a hash that multiplies before it folds the byte in (FNV-1)
FnvStepMultiplyFirst(h, byte) ==
    LET prod == h[2] * FnvPrimeLow
        lo1 == prod % 65536
    IN  << (h[1] * FnvPrimeLow + (prod \div 65536) + (h[2] % 256) * 256) % 65536,
           (lo1 \div 256) * 256 + XorBits(lo1 % 256, byte, 8) >>

\* hash ^= byte; hash = Math.imul(hash, 0x01000193)
FnvStep(h, byte) ==
    LET lo1 == (h[2] \div 256) * 256 + XorBits(h[2] % 256, byte, 8)
        prod == lo1 * FnvPrimeLow
    IN  << (h[1] * FnvPrimeLow + (prod \div 65536) + (lo1 % 256) * 256) % 65536,
           prod % 65536 >>

RECURSIVE FnvFold(_, _, _)
FnvFold(h, data, i) ==
    IF i > Len(data) THEN h ELSE FnvFold(FnvStep(h, data[i]), data, i + 1)

fnv1a(data) == FnvFold(FnvOffsetBasis, data, 1)

\* the bytes a Uint8Array can hold, and the longest array hashed
Bytes == {0, 97, 128, 255}
MaxBytes == 3

----------------------------------------------------------------------------
(* PathPolicy *)

SKIP_DIRS == {"vendor", "node_modules", ".git"}

\* a filter that looks at the last segment instead of the first
shouldSkipLast(relativePath) == relativePath[Len(relativePath)] \in SKIP_DIRS

\* relativePath.split('/')[0] is in SKIP_DIRS
shouldSkip(relativePath) == relativePath[1] \in SKIP_DIRS

\* collectLocalPaths does not descend into a directory whose own name is in
\* SKIP_DIRS, at any depth; the last segment is the file's name.
LocalListed(relativePath) ==
    \A k \in 1..(Len(relativePath) - 1) : relativePath[k] \notin SKIP_DIRS

----------------------------------------------------------------------------
(* Map helpers (Map.set, Map.delete) *)

MapSet(m, k, v) == [x \in (DOMAIN m) \cup {k} |-> IF x = k THEN v ELSE m[x]]
MapDelete(m, k) == [x \in (DOMAIN m) \ {k} |-> m[x]]
EmptyMap == [x \in {} |-> 0]

FirstIdx(S) == IF S = {} THEN 0 ELSE CHOOSE j \in S : \A k \in S : j <= k

\* the lowest free task slot, 0 when every slot is taken
FreeSlot == FirstIdx({t \in Slots : tasks[t] = Idle})

----------------------------------------------------------------------------
(* The two stores *)

\* the directories above a file, '/app' itself being <<>>
Dirs(p) == {SubSeq(p, 1, k) : k \in 0..(Len(p) - 1)}

\* what may be unreadable when the VFS is listed: nothing, or one directory
\* that holds a file (listFiles throws for it)
Unreadable == {{}} \cup {{d} : d \in UNION {Dirs(p) : p \in DOMAIN vfs}}

\* collectVfsPaths('/app') with the '/app/' prefix removed, the directories
\* of `dark` being unreadable: `catch (_) { /* skip unreadable dirs */ }`
collectVfsPathsBut(dark) == {p \in DOMAIN vfs : Dirs(p) \cap dark = {}}

\* collectVfsPaths('/app') with the '/app/' prefix removed
collectVfsPaths == collectVfsPathsBut({})

\* collectLocalPaths(directoryHandle): every listed file with its lastModified
collectLocalPaths ==
    [p \in {q \in DOMAIN local : LocalListed(q)} |-> local[p].lastModified]

\* php.writeFile(vfsPath, content)
writeVfsFile(store, p, content, who) ==
    MapSet(store, p, [content |-> content, by |-> who])

\* writeLocalFile: the bytes become visible when the writable is closed
writeLocalFile(store, p, content, who) ==
    MapSet(store, p, [content |-> content, lastModified |-> mtime[p] + 1, by |-> who])

\* vfsVersion.value++ runs every subscribed watch callback, which clears its
\* debounce timer and arms a new one (startVfsWatcher's watch callback)
Arm(W) ==
    [cur    |-> IF W.cur = "none" THEN "none" ELSE "pending",
     leaked |-> [n |-> W.leaked.n, armed |-> W.leaked.n]]

Watchers == [cur |-> vfsWatcherStop, leaked |-> leakedWatchers]

\* The outcome of an awaited local-store operation: "ok", "fail" (any error
\* other than a permission error) or "denied" (NotAllowedError/SecurityError).
\* An operation that cannot succeed (no handle, no such file) fails.
Outcomes == {"ok", "fail", "denied"}
MayEnd(o, forced) ==
    IF forced THEN o = "fail" ELSE (o = "ok" \/ budget > 0)
CountFault(o, forced) ==
    budget' = IF o # "ok" /\ ~forced THEN budget - 1 ELSE budget

----------------------------------------------------------------------------
(* syncProgress: fractions <<numerator, denominator>> with a positive       *)
(* denominator                                                             *)

Zero == <<0, 1>>
One == <<1, 1>>
Leq(x, y) == x[1] * y[2] <= y[1] * x[2]

\* `done % 20 === 0`
ProgressEvery == 20

\* done++; if (done % 20 === 0 || done === total) syncProgress.value = done / total
ProgressAfter(prog, done, total) ==
    IF done % ProgressEvery = 0 \/ done = total THEN <<done, total>> ELSE prog

\* the same for each of the paths first + 1 .. last, in turn
RECURSIVE ProgressOver(_, _, _, _)
ProgressOver(prog, first, last, total) ==
    IF first >= last THEN prog
    ELSE ProgressOver(ProgressAfter(prog, first + 1, total), first + 1, last, total)

----------------------------------------------------------------------------
(* Initial state: the module's top-level declarations; the two stores hold  *)
(* any files.                                                               *)

Stores(T) == UNION {[S -> Contents] : S \in SUBSET T}


\* T: the paths that can exist; b: the events the world outside may cause;
\* trk: whether the history of reruns is kept
Boot(T, b, trk) ==
    /\ syncState = "disconnected"
    /\ syncError = ""
    /\ directoryHandle = FALSE
    /\ pollIntervalId = FALSE
    /\ leakedPollers = 0
    /\ vfsWatcherStop = "none"
    /\ leakedWatchers = [n |-> 0, armed |-> 0]
    /\ syncLock = FALSE
    /\ vfsSnapshot = EmptyMap
    /\ localSnapshot = EmptyMap
    /\ tree = T
    /\ \E f \in Stores(tree) :
         vfs = [p \in DOMAIN f |-> [content |-> f[p], by |-> "ext"]]
    /\ \E f \in Stores(tree) :
         local = [p \in DOMAIN f |-> [content |-> f[p], lastModified |-> 1, by |-> "ext"]]
    /\ mtime = [p \in Paths |-> 1]
    /\ tasks = [t \in Slots |-> Idle]
    /\ unseen = {}
    /\ tracking = trk
    /\ quiet = {}
    /\ quiesced = TRUE
    /\ budget = b
    /\ syncProgress = Zero
    /\ isSupported \in BOOLEAN
    /\ refused = FALSE
    /\ cancelled = ""
    /\ vain = {}
    /\ input = <<>>
    /\ digest = <<>>

Init == Boot({PathSeq[1]}, MaxEvents, FALSE)

\* the same with the history of reruns kept
InitRerun == Boot({PathSeq[1]}, MaxEvents - 1, TRUE)

\* two ordinary files in the local directory, the virtual filesystem still
\* empty
InitPair == Boot({PathSeq[1], PathSeq[2]}, MaxEvents - 1, FALSE) /\ vfs = EmptyMap

\* an ordinary file and one under an excluded top-level directory
InitExcluded == Boot({PathSeq[1], PathSeq[3]}, MaxEvents - 1, FALSE)

\* an ordinary file and one under a directory with an excluded name below the
\* first segment
InitNested == Boot({PathSeq[1], PathSeq[4]}, MaxEvents - 2, FALSE)

\* the one-file tree, fewer events
InitCalm == Boot({PathSeq[1]}, MaxEvents - 1, FALSE)

\* both stores empty
InitProgress == Boot({}, MaxEvents - 1, FALSE)

----------------------------------------------------------------------------
(* cleanupWatchers, handleFsError, disconnect *)

\* clearInterval(pollIntervalId); vfsWatcherStop() -- only the interval and
\* the watcher the module still holds are stopped
cleanupWatchers(W) ==
    /\ pollIntervalId' = FALSE
    /\ vfsWatcherStop' = "none"
    /\ leakedWatchers' = W.leaked
    /\ UNCHANGED leakedPollers

disconnect ==
    /\ cleanupWatchers(Watchers)
    /\ directoryHandle' = FALSE
    /\ vfsSnapshot' = EmptyMap
    /\ localSnapshot' = EmptyMap
    /\ syncLock' = FALSE
    /\ syncState' = "disconnected"
    /\ syncError' = ""
    /\ syncProgress' = Zero
    /\ UNCHANGED <<vfs, local, mtime, tasks, tree, budget>>
    /\ UNCHANGED unseen
    /\ quiesced' = \A t \in Slots : ~(tasks[t].kind = "init" /\ tasks[t].pc = "picker")
    /\ UNCHANGED quiet
    /\ UNCHANGED tracking
    /\ UNCHANGED <<isSupported, input, digest, refused, cancelled, vain>>

----------------------------------------------------------------------------
(* connect and initialSync *)

\* history: a store has changed; every steady-state pass in flight is upset
Stir(ts) ==
    [u \in Slots |->
        IF tracking /\ ts[u].kind \in {"push", "poll"}
        THEN [ts[u] EXCEPT !.upset = TRUE] ELSE ts[u]]

\* h: the task's history fields [ext, retry, failed]
InitTask(pc, i, lm, vfsPaths, root, content, h) ==
    [kind |-> "init", pc |-> pc, i |-> i, lm |-> lm, vfsPaths |-> vfsPaths,
     root |-> root, content |-> content,
     ext |-> h.ext, retry |-> h.retry, failed |-> h.failed]

Revoked == "Permission to access the folder was revoked."

\* the history fields of task T after one more awaited operation ended o
Hist(T, o) == [ext |-> T.ext, retry |-> T.retry, failed |-> T.failed \/ o # "ok"]

\* connect() from `try { directoryHandle = await window.showDirectoryPicker`:
\* the call up to that await.  The picker is modal: no second one opens while
\* one is showing.
OpenPicker ==
    /\ FreeSlot # 0
    /\ \A t \in Slots : ~(tasks[t].kind = "init" /\ tasks[t].pc = "picker")
    /\ tasks' = [tasks EXCEPT ![FreeSlot] =
          InitTask("picker", 0, EmptyMap, {}, FALSE, <<>>,
                   [ext |-> {}, failed |-> FALSE,
                    retry |-> syncState = "error" /\ syncError = Revoked])]
    /\ quiesced' = FALSE
    /\ UNCHANGED refused

\* a connect() without its first line
connectNoGuard ==
    /\ budget > 0
    /\ budget' = budget - 1
    /\ OpenPicker
    /\ UNCHANGED <<syncState, syncError, directoryHandle, pollIntervalId,
                   leakedPollers, vfsWatcherStop, leakedWatchers, syncLock,
                   vfsSnapshot, localSnapshot, vfs, local, mtime, tree>>
    /\ UNCHANGED <<unseen, quiet, tracking, syncProgress, isSupported, input, digest, cancelled, vain>>

\* connect(): `if (!isSupported) return`, else on to the picker
connect ==
    /\ budget > 0
    /\ budget' = budget - 1
    /\ IF isSupported
       THEN OpenPicker
       ELSE /\ refused' = TRUE
            /\ UNCHANGED <<tasks, quiesced>>
    /\ UNCHANGED <<syncState, syncError, directoryHandle, pollIntervalId,
                   leakedPollers, vfsWatcherStop, leakedWatchers, syncLock,
                   vfsSnapshot, localSnapshot, vfs, local, mtime, tree>>
    /\ UNCHANGED <<unseen, quiet, tracking, syncProgress, isSupported, input, digest, cancelled, vain>>

\* a connect() that takes a cancelled picker for a failure like any other
PickerCancelledAsError(t) ==
    /\ syncState' = "error"
    /\ syncError' = "Failed to open directory"
    /\ tasks' = [tasks EXCEPT ![t] = Idle]
    /\ UNCHANGED <<directoryHandle, syncProgress>>

\* `if (err?.name === 'AbortError') return // user cancelled`
PickerCancelled(t) ==
    /\ tasks' = [tasks EXCEPT ![t] = Idle]
    /\ UNCHANGED <<directoryHandle, syncError, syncState, syncProgress>>

\* The picker settles: a handle, AbortError, or any other error.  With a handle
\* connect goes on into initialSync up to `await collectLocalPaths`.
PickerSettles(t, o) ==
    /\ tasks[t].kind = "init" /\ tasks[t].pc = "picker"
    /\ o \in {"ok", "abort", "fail"}
    /\ CASE o = "ok" ->
              /\ directoryHandle' = TRUE
              /\ syncError' = ""
              /\ syncState' = "syncing-initial"
              /\ syncProgress' = Zero
              /\ tasks' = [tasks EXCEPT ![t] =
                    InitTask("enum", 0, EmptyMap, {}, TRUE, <<>>, Hist(tasks[t], o))]
         [] o = "abort" -> PickerCancelled(t)
         [] o = "fail" ->
              /\ syncState' = "error"
              /\ syncError' = "Failed to open directory"
              /\ tasks' = [tasks EXCEPT ![t] = Idle]
              /\ UNCHANGED <<directoryHandle, syncProgress>>
    /\ UNCHANGED <<pollIntervalId, leakedPollers, vfsWatcherStop, leakedWatchers,
                   syncLock, vfsSnapshot, localSnapshot, vfs, local, mtime,
                   tree, budget>>
    /\ UNCHANGED unseen
    /\ UNCHANGED quiesced
    /\ UNCHANGED quiet
    /\ UNCHANGED tracking
    /\ UNCHANGED <<isSupported, input, digest, refused, vain>>
    /\ cancelled' = IF o = "abort" THEN syncState ELSE cancelled

\* The loops of initialSync from phase 1 index i (or phase 2 index i) up to
\* the next await: the task as it is suspended there, or Idle when initialSync
\* has returned.  A VFS-only path that readFileAsBuffer cannot read throws
\* inside the try and is skipped.
InitNext(T, phase, i, vfsN, h) ==
    LET j1 == IF phase = 1
              THEN FirstIdx({k \in i..NPaths : PathSeq[k] \in DOMAIN T.lm})
              ELSE 0
        i2 == IF phase = 1 THEN 1 ELSE i
        j2 == FirstIdx({k \in i2..NPaths :
                          /\ PathSeq[k] \in T.vfsPaths
                          /\ PathSeq[k] \notin DOMAIN T.lm
                          /\ PathSeq[k] \in DOMAIN vfsN})
    IN  IF j1 # 0
        THEN InitTask("read", j1, T.lm, T.vfsPaths, directoryHandle, <<>>, h)
        ELSE IF j2 # 0
        THEN InitTask("write", j2, T.lm, T.vfsPaths, directoryHandle,
                      vfsN[PathSeq[j2]].content, h)
        ELSE Idle

\* const total = localFiltered.length + vfsPaths.filter(!localPathSet.has).length
Total(T) ==
    IF T.pc = "bulk" THEN T.total
    ELSE Cardinality(DOMAIN T.lm) + Cardinality(T.vfsPaths \ DOMAIN T.lm)

\* `done` of initialSync as it is suspended at T's await: the paths that
\* either loop has left behind
Done(T) ==
    CASE T.pc = "bulk" -> T.done
      [] T.pc = "read" ->
           Cardinality({k \in 1..(T.i - 1) : PathSeq[k] \in DOMAIN T.lm})
      [] T.pc \in {"write", "readback"} ->
           Cardinality(DOMAIN T.lm) +
           Cardinality({k \in 1..(T.i - 1) : PathSeq[k] \in T.vfsPaths \ DOMAIN T.lm})
      [] OTHER -> 0

\* What follows a step of initialSync: the task suspended at its next await,
\* or, when initialSync has returned, the rest of connect(): startVfsWatcher,
\* startLocalPoller, syncState.value = 'connected'.  Neither start function
\* stops what an earlier call started.  wrote: the step changed a store.
InitAfter(t, nextT, W, wrote) ==
    /\ tasks' = [(IF wrote THEN Stir(tasks) ELSE tasks) EXCEPT ![t] = nextT]
    /\ syncProgress' = IF nextT = Idle THEN One
                       ELSE ProgressOver(syncProgress, Done(tasks[t]), Done(nextT),
                                         Total(nextT))
    /\ IF nextT = Idle
       THEN /\ syncState' = "connected"
            /\ vfsWatcherStop' = "idle"
            /\ leakedWatchers' =
                 IF W.cur = "none" THEN W.leaked
                 ELSE [n |-> W.leaked.n + 1,
                       armed |-> W.leaked.armed + (IF W.cur = "pending" THEN 1 ELSE 0)]
            /\ pollIntervalId' = TRUE
            /\ leakedPollers' = leakedPollers + (IF pollIntervalId THEN 1 ELSE 0)
       ELSE /\ vfsWatcherStop' = W.cur
            /\ leakedWatchers' = W.leaked
            /\ UNCHANGED <<syncState, pollIntervalId, leakedPollers>>

\* `await collectLocalPaths(directoryHandle!)` settles; a rejection leaves
\* initialSync and is caught by connect()
InitEnumerated(t, o) ==
    LET T == tasks[t] IN
    /\ T.kind = "init" /\ T.pc = "enum"
    /\ o \in Outcomes /\ MayEnd(o, ~T.root)
    /\ CountFault(o, ~T.root)
    /\ IF o = "ok"
       THEN LET listed == collectLocalPaths
                lm == [p \in {q \in DOMAIN listed : ~shouldSkip(q)} |-> listed[p]]
                vfsPaths == {p \in collectVfsPaths : ~shouldSkip(p)}
                T1 == InitTask("enum", 0, lm, vfsPaths, T.root, <<>>, Hist(T, o))
            IN  /\ InitAfter(t, InitNext(T1, 1, 1, vfs, Hist(T, o)), Watchers, FALSE)
                /\ UNCHANGED <<syncError, directoryHandle>>
       ELSE /\ syncState' = "error"
            /\ syncError' = "Initial sync failed"
            /\ directoryHandle' = FALSE
            /\ tasks' = [tasks EXCEPT ![t] = Idle]
            /\ UNCHANGED <<pollIntervalId, leakedPollers, vfsWatcherStop, leakedWatchers,
                           syncProgress>>
    /\ UNCHANGED <<syncLock, vfsSnapshot, localSnapshot, vfs, local, mtime,
                   tree>>
    /\ UNCHANGED unseen
    /\ UNCHANGED quiesced
    /\ UNCHANGED quiet
    /\ UNCHANGED tracking
    /\ UNCHANGED <<isSupported, input, digest, refused, cancelled, vain>>

\* initialSync over a directory of `total` files whose contents play no part:
\* suspended in the iteration of either loop that follows `done` finished
\* ones.  The stores and the snapshot maps do not tell these files apart and
\* are left as they are.
BulkTask(done, total, root, h) ==
    InitTask("bulk", 0, EmptyMap, {}, root, <<>>, h) @@ [done |-> done, total |-> total]

Totals == {0, MaxTotal}

\* `await collectLocalPaths(directoryHandle!)` resolves with n such files
BulkEnumerated(t, n) ==
    LET T == tasks[t] IN
    /\ T.kind = "init" /\ T.pc = "enum" /\ T.root
    /\ n \in Totals
    /\ InitAfter(t, IF n = 0 THEN Idle ELSE BulkTask(0, n, T.root, Hist(T, "ok")),
                 Watchers, FALSE)
    /\ UNCHANGED <<syncError, directoryHandle, syncLock, vfsSnapshot, localSnapshot,
                   vfs, local, mtime, tree, budget>>
    /\ UNCHANGED <<unseen, quiesced, quiet, tracking, isSupported, input, digest, refused, cancelled, vain>>

\* one iteration of either loop ends, with or without an error caught in it:
\* done++, the progress update, and on to the next iteration or the return
BulkStep(t) ==
    LET T == tasks[t] IN
    /\ T.kind = "init" /\ T.pc = "bulk"
    /\ InitAfter(t, IF T.done + 1 = T.total THEN Idle
                    ELSE BulkTask(T.done + 1, T.total, T.root, Hist(T, "ok")),
                 Watchers, FALSE)
    /\ UNCHANGED <<syncError, directoryHandle, syncLock, vfsSnapshot, localSnapshot,
                   vfs, local, mtime, tree, budget>>
    /\ UNCHANGED <<unseen, quiesced, quiet, tracking, isSupported, input, digest, refused, cancelled, vain>>

\* Phase 1, `await readLocalFile(directoryHandle!, rel)` settles: the local
\* bytes go into the VFS and both snapshot entries are recorded
InitRead(t, o) ==
    LET T == tasks[t]
        p == PathSeq[T.i]
        forced == ~T.root \/ p \notin DOMAIN local
    IN
    /\ T.kind = "init" /\ T.pc = "read"
    /\ o \in Outcomes /\ MayEnd(o, forced)
    /\ CountFault(o, forced)
    /\ IF o = "ok"
       THEN LET content == local[p].content
                vfsN == writeVfsFile(vfs, p, content, "init")
            IN  /\ vfs' = vfsN
                /\ quiet' = {}
                /\ vfsSnapshot' = MapSet(vfsSnapshot, p, fnv1a(content))
                /\ localSnapshot' = MapSet(localSnapshot, p, T.lm[p])
                /\ InitAfter(t, InitNext(T, 1, T.i + 1, vfsN, Hist(T, o)), Arm(Watchers), TRUE)
       ELSE /\ InitAfter(t, InitNext(T, 1, T.i + 1, vfs, Hist(T, o)), Watchers, FALSE)
            /\ UNCHANGED quiet
            /\ UNCHANGED <<vfs, vfsSnapshot, localSnapshot>>
    /\ UNCHANGED <<syncError, directoryHandle, syncLock, local, mtime, tree>>
    /\ UNCHANGED unseen
    /\ UNCHANGED quiesced
    /\ UNCHANGED tracking
    /\ UNCHANGED <<isSupported, input, digest, refused, cancelled, vain>>

\* Phase 2, `await writeLocalFile(directoryHandle!, rel, content)` settles
InitWrite(t, o) ==
    LET T == tasks[t]
        p == PathSeq[T.i]
        forced == ~T.root
    IN
    /\ T.kind = "init" /\ T.pc = "write"
    /\ o \in Outcomes /\ MayEnd(o, forced)
    /\ CountFault(o, forced)
    /\ IF o = "ok"
       THEN /\ local' = writeLocalFile(local, p, T.content, "init")
            /\ quiet' = {}
            /\ mtime' = [mtime EXCEPT ![p] = @ + 1]
            /\ vfsSnapshot' = MapSet(vfsSnapshot, p, fnv1a(T.content))
            /\ tasks' = [Stir(tasks) EXCEPT ![t] =
                  InitTask("readback", T.i, T.lm, T.vfsPaths, directoryHandle, <<>>,
                           Hist(T, o))]
            /\ UNCHANGED <<syncState, pollIntervalId, leakedPollers, vfsWatcherStop,
                           leakedWatchers, syncProgress>>
       ELSE /\ InitAfter(t, InitNext(T, 2, T.i + 1, vfs, Hist(T, o)), Watchers, FALSE)
            /\ UNCHANGED <<local, mtime, vfsSnapshot, quiet>>
    /\ UNCHANGED <<syncError, directoryHandle, syncLock, localSnapshot, vfs,
                   tree>>
    /\ UNCHANGED unseen
    /\ UNCHANGED quiesced
    /\ UNCHANGED tracking
    /\ UNCHANGED <<isSupported, input, digest, refused, cancelled, vain>>

\* Phase 2, `await readLocalFile(directoryHandle!, rel)` for the timestamp
InitReadback(t, o) ==
    LET T == tasks[t]
        p == PathSeq[T.i]
        forced == ~T.root \/ p \notin DOMAIN local
    IN
    /\ T.kind = "init" /\ T.pc = "readback"
    /\ o \in Outcomes /\ MayEnd(o, forced)
    /\ CountFault(o, forced)
    /\ localSnapshot' = IF o = "ok"
                        THEN MapSet(localSnapshot, p, local[p].lastModified)
                        ELSE localSnapshot
    /\ InitAfter(t, InitNext(T, 2, T.i + 1, vfs, Hist(T, o)), Watchers, FALSE)
    /\ UNCHANGED <<syncError, directoryHandle, syncLock, vfsSnapshot, vfs, local,
                   mtime, tree>>
    /\ UNCHANGED unseen
    /\ UNCHANGED quiesced
    /\ UNCHANGED quiet
    /\ UNCHANGED tracking
    /\ UNCHANGED <<isSupported, input, digest, refused, cancelled, vain>>

----------------------------------------------------------------------------
(* startVfsWatcher: the debounce timer and pushVfsToLocal *)

\* echo: the paths whose VFS file was, when the pass began, as the poller
\* wrote it; echoed: the write now awaited is of such a file, unchanged since
\* h: [again, upset, hid] -- again: the pass began while `quiet` held its
\* kind; upset: an operation of the pass has failed, or something other than
\* the pass has changed a store while it was in flight; hid: the files of the
\* VFS that the listing of the pass has missed
PushTask(pc, i, cur, root, content, echo, echoed, h) ==
    [kind |-> "push", pc |-> pc, i |-> i, cur |-> cur, root |-> root,
     content |-> content, echo |-> echo, echoed |-> echoed,
     again |-> h.again, upset |-> h.upset, hid |-> h.hid]

\* pushVfsToLocal from index i of its first loop ("loop") or of its deletion
\* loop ("del") up to the next await: the task as suspended there, or Idle
\* when the pass has reached its finally.  A path whose hash equals its
\* vfsSnapshot entry is passed over; one that readFileAsBuffer cannot read
\* throws inside the try and is passed over too.  The deletion loop iterates
\* over the live key set of vfsSnapshot.
PushNext(T, phase, i, vsN, h) ==
    LET j1 == IF phase = "loop"
              THEN FirstIdx({k \in i..NPaths :
                               /\ PathSeq[k] \in T.cur
                               /\ PathSeq[k] \in DOMAIN vfs
                               /\ ~(/\ PathSeq[k] \in DOMAIN vsN
                                    /\ vsN[PathSeq[k]] = fnv1a(vfs[PathSeq[k]].content))})
              ELSE 0
        i2 == IF phase = "loop" THEN 1 ELSE i
        j2 == FirstIdx({k \in i2..NPaths :
                          PathSeq[k] \in DOMAIN vsN /\ PathSeq[k] \notin T.cur})
    IN  IF j1 # 0
        THEN PushTask("write", j1, T.cur, directoryHandle, vfs[PathSeq[j1]].content,
                      T.echo, PathSeq[j1] \in T.echo /\ vfs[PathSeq[j1]].by = "poll", h)
        ELSE IF j2 # 0
        THEN PushTask("remove", j2, T.cur, directoryHandle, <<>>, T.echo, FALSE, h)
        ELSE Idle

\* the history fields of the pass T after one more awaited operation ended o
PassHist(T, o) ==
    [again |-> T.again, upset |-> T.upset \/ (tracking /\ o # "ok"),
     hid |-> IF T.kind = "push" THEN T.hid ELSE {},
     same |-> IF T.kind = "poll" THEN T.same ELSE {},
     gone |-> {}]

\* history: `quiet` after a step.  wrote: the step changed the VFS or the
\* local store; t: the slot whose pass the step continues (0: none), going on
\* as nextT after an operation that ended o.
QuietAfter(wrote, t, nextT, o) ==
    quiet' = (IF wrote THEN {} ELSE quiet) \cup
             (IF /\ tracking /\ t # 0 /\ nextT = Idle
                 /\ o = "ok" /\ ~tasks[t].upset
                 /\ \A u \in Slots \ {t} : tasks[u].kind \notin {"push", "poll"}
              THEN {tasks[t].kind} ELSE {})

\* a pass whose finally block is missing: the lock stays as it is
PassAfterNoFinally(t, nextT, wrote) ==
    /\ tasks' = [(IF wrote THEN Stir(tasks) ELSE tasks) EXCEPT ![t] = nextT]
    /\ UNCHANGED syncLock

\* finally { syncLock = false } once the pass has ended; the lock is not
\* touched while the pass is suspended.  wrote: the step changed a store.
PassAfter(t, nextT, wrote) ==
    /\ tasks' = [(IF wrote THEN Stir(tasks) ELSE tasks) EXCEPT ![t] = nextT]
    /\ syncLock' = IF nextT = Idle THEN FALSE ELSE syncLock

\* A debounce timer elapses and calls pushVfsToLocal(), which runs up to its
\* first await.  which: the watcher the module holds ("cur") or one whose
\* stop function was overwritten ("leaked").
DebounceElapsesOn(which, dark) ==
    /\ \/ which = "cur" /\ vfsWatcherStop = "pending"
       \/ which = "leaked" /\ leakedWatchers.armed > 0
    /\ vfsWatcherStop' = IF which = "cur" THEN "idle" ELSE vfsWatcherStop
    /\ leakedWatchers' = IF which = "leaked"
                         THEN [leakedWatchers EXCEPT !.armed = @ - 1]
                         ELSE leakedWatchers
    /\ dark \in Unreadable
    /\ IF syncLock \/ ~directoryHandle
       THEN dark = {} /\ UNCHANGED <<tasks, syncLock, quiet, budget>>
       ELSE LET cur == {p \in collectVfsPathsBut(dark) : ~shouldSkip(p)}
                echo == {p \in cur : vfs[p].by = "poll"}
                h == [again |-> "push" \in quiet, upset |-> tracking /\ dark # {},
                      hid |-> (DOMAIN vfs) \ collectVfsPathsBut(dark)]
                nextT == PushNext(PushTask("write", 0, cur, TRUE, <<>>, echo, FALSE, h),
                                  "loop", 1, vfsSnapshot, h)
            IN  /\ dark # {} => budget > 0
                /\ budget' = IF dark # {} THEN budget - 1 ELSE budget
                /\ IF nextT = Idle
                   THEN /\ UNCHANGED <<tasks, syncLock>>
                        /\ quiet' = quiet \cup
                             (IF /\ tracking /\ dark = {}
                                 /\ \A u \in Slots : tasks[u].kind \notin {"push", "poll"}
                              THEN {"push"} ELSE {})
                   ELSE /\ FreeSlot # 0
                        /\ tasks' = [tasks EXCEPT ![FreeSlot] = nextT]
                        /\ syncLock' = TRUE
                        /\ UNCHANGED quiet
    /\ UNCHANGED <<syncState, syncError, directoryHandle, pollIntervalId,
                   leakedPollers, vfsSnapshot, localSnapshot, vfs, local, mtime,
                   tree>>
    /\ UNCHANGED unseen
    /\ UNCHANGED quiesced
    /\ UNCHANGED tracking
    /\ UNCHANGED syncProgress
    /\ UNCHANGED <<isSupported, input, digest, refused, cancelled, vain>>

\* the same, whatever the listing of the VFS may miss
DebounceElapses(which) == \E dark \in Unreadable : DebounceElapsesOn(which, dark)

\* `await writeLocalFile(directoryHandle!, rel, content)` settles
PushWrite(t, o) ==
    LET T == tasks[t]
        p == PathSeq[T.i]
        forced == ~T.root
    IN
    /\ T.kind = "push" /\ T.pc = "write"
    /\ o \in Outcomes /\ MayEnd(o, forced)
    /\ CountFault(o, forced)
    /\ IF o = "ok"
       THEN /\ local' = writeLocalFile(local, p, T.content, "push")
            /\ mtime' = [mtime EXCEPT ![p] = @ + 1]
            /\ vfsSnapshot' = MapSet(vfsSnapshot, p, fnv1a(T.content))
            /\ PassAfter(t, PushTask("readback", T.i, T.cur, directoryHandle, <<>>,
                                      T.echo, FALSE, PassHist(T, o)), TRUE)
            /\ quiet' = {}
       ELSE /\ PassAfter(t, PushNext(T, "loop", T.i + 1, vfsSnapshot, PassHist(T, o)), FALSE)
            /\ QuietAfter(FALSE, t, PushNext(T, "loop", T.i + 1, vfsSnapshot, PassHist(T, o)), o)
            /\ UNCHANGED <<local, mtime, vfsSnapshot>>
    /\ UNCHANGED <<syncState, syncError, directoryHandle, pollIntervalId,
                   leakedPollers, vfsWatcherStop, leakedWatchers, localSnapshot,
                   vfs, tree>>
    /\ UNCHANGED unseen
    /\ UNCHANGED quiesced
    /\ UNCHANGED tracking
    /\ UNCHANGED syncProgress
    /\ UNCHANGED <<isSupported, input, digest, refused, cancelled, vain>>

\* `await readLocalFile(directoryHandle!, rel)` settles: the timestamp just
\* written is recorded
PushReadback(t, o) ==
    LET T == tasks[t]
        p == PathSeq[T.i]
        forced == ~T.root \/ p \notin DOMAIN local
    IN
    /\ T.kind = "push" /\ T.pc = "readback"
    /\ o \in Outcomes /\ MayEnd(o, forced)
    /\ CountFault(o, forced)
    /\ localSnapshot' = IF o = "ok"
                        THEN MapSet(localSnapshot, p, local[p].lastModified)
                        ELSE localSnapshot
    /\ PassAfter(t, PushNext(T, "loop", T.i + 1, vfsSnapshot, PassHist(T, o)), FALSE)
    /\ QuietAfter(FALSE, t, PushNext(T, "loop", T.i + 1, vfsSnapshot, PassHist(T, o)), o)
    /\ UNCHANGED <<syncState, syncError, directoryHandle, pollIntervalId,
                   leakedPollers, vfsWatcherStop, leakedWatchers, vfsSnapshot,
                   vfs, local, mtime, tree>>
    /\ UNCHANGED unseen
    /\ UNCHANGED quiesced
    /\ UNCHANGED tracking
    /\ UNCHANGED syncProgress
    /\ UNCHANGED <<isSupported, input, digest, refused, cancelled, vain>>

\* a removal that, finding no entry of that name, empties the directory
removeLocalEntryOrAll(store, p, o) ==
    IF o # "ok" THEN store
    ELSE IF p \in DOMAIN store THEN MapDelete(store, p) ELSE EmptyMap

\* removeLocalEntry(root, relativePath): every rejection is swallowed, a
\* missing entry or parent is no error
removeLocalEntry(store, p, o) ==
    IF o = "ok" /\ p \in DOMAIN store THEN MapDelete(store, p) ELSE store

\* history: the file of p, if still there, is one that a removal has left
Kept(store, p) ==
    IF p \in DOMAIN store THEN [store EXCEPT ![p].by = "kept"] ELSE store

\* `await removeLocalEntry(directoryHandle!, rel)` settles; both snapshot
\* entries are deleted whatever became of the removal
PushRemove(t, o) ==
    LET T == tasks[t]
        p == PathSeq[T.i]
        forced == ~T.root
        vsN == MapDelete(vfsSnapshot, p)
    IN
    /\ T.kind = "push" /\ T.pc = "remove"
    /\ o \in Outcomes /\ MayEnd(o, forced)
    /\ CountFault(o, forced)
    /\ local' = Kept(removeLocalEntry(local, p, o), p)
    /\ vfsSnapshot' = vsN
    /\ localSnapshot' = MapDelete(localSnapshot, p)
    /\ PassAfter(t, PushNext(T, "del", T.i + 1, vsN, PassHist(T, o)),
                 o = "ok" /\ p \in DOMAIN local)
    /\ QuietAfter(o = "ok" /\ p \in DOMAIN local, t,
                  PushNext(T, "del", T.i + 1, vsN, PassHist(T, o)), o)
    /\ UNCHANGED <<syncState, syncError, directoryHandle, pollIntervalId,
                   leakedPollers, vfsWatcherStop, leakedWatchers, vfs, mtime,
                   tree>>
    /\ UNCHANGED unseen
    /\ UNCHANGED quiesced
    /\ UNCHANGED tracking
    /\ UNCHANGED syncProgress
    /\ UNCHANGED <<isSupported, input, digest, refused, cancelled>>
    /\ vain' = IF p \in DOMAIN local THEN vain ELSE vain \cup {p}

----------------------------------------------------------------------------
(* startLocalPoller: the interval callback *)

\* a poller without echo prevention
isEchoNever(p, hash) == FALSE

\* `vfsSnapshot.get(rel) === hash`
isEcho(p, hash) == p \in DOMAIN vfsSnapshot /\ vfsSnapshot[p] = hash

\* same (history): the paths for which the pass has found the bytes read to
\* have the fingerprint on record
PollTask(pc, i, lm, root, h) ==
    [kind |-> "poll", pc |-> pc, i |-> i, lm |-> lm, root |-> root,
     again |-> h.again, upset |-> h.upset, same |-> h.same, gone |-> h.gone]

\* The loop of the interval callback from index i up to the next await.  A
\* skipped path, or one whose lastModified equals its localSnapshot entry, is
\* passed over.
PollNext(T, i, lsN, h) ==
    LET j == FirstIdx({k \in i..NPaths :
                         /\ PathSeq[k] \in DOMAIN T.lm
                         /\ ~shouldSkip(PathSeq[k])
                         /\ ~(/\ PathSeq[k] \in DOMAIN lsN
                              /\ lsN[PathSeq[k]] = T.lm[PathSeq[k]])})
    IN  IF j # 0 THEN PollTask("read", j, T.lm, directoryHandle, h) ELSE Idle

\* a poller that also drops from the VFS the paths it knows (localSnapshot)
\* and did not see in the local listing
syncLocalDeletionsDropUnseen(store, seen) ==
    [p \in {q \in DOMAIN store : q \in seen \/ q \notin DOMAIN localSnapshot} |-> store[p]]

\* "No local->VFS deletion sync for v1": once the loop is over the callback
\* does nothing about the snapshot paths it has not seen
syncLocalDeletions(store, seen) == store

\* the VFS as the callback leaves it when it goes on as nextT
PollVfs(store, T, nextT) ==
    IF nextT = Idle THEN syncLocalDeletions(store, DOMAIN T.lm) ELSE store

\* history: what the callback, going on as nextT, has not seen of the keys lsN
PollUnseen(T, nextT, lsN) ==
    IF nextT = Idle THEN (DOMAIN lsN) \ (DOMAIN T.lm) ELSE unseen

\* An interval fires: the callback runs up to `await collectLocalPaths`
PollTick ==
    /\ pollIntervalId \/ leakedPollers > 0
    /\ IF syncLock \/ ~directoryHandle
       THEN UNCHANGED <<tasks, syncLock>>
       ELSE /\ FreeSlot # 0
            /\ tasks' = [tasks EXCEPT ![FreeSlot] =
                  PollTask("enum", 0, EmptyMap, TRUE,
                           [again |-> "poll" \in quiet, upset |-> FALSE, hid |-> {},
                            same |-> {}, gone |-> {}])]
            /\ syncLock' = TRUE
    /\ UNCHANGED <<syncState, syncError, directoryHandle, pollIntervalId,
                   leakedPollers, vfsWatcherStop, leakedWatchers, vfsSnapshot,
                   localSnapshot, vfs, local, mtime, tree, budget>>
    /\ UNCHANGED unseen
    /\ UNCHANGED quiesced
    /\ UNCHANGED quiet
    /\ UNCHANGED tracking
    /\ UNCHANGED syncProgress
    /\ UNCHANGED <<isSupported, input, digest, refused, cancelled, vain>>

\* `await collectLocalPaths(directoryHandle!)` settles; a rejection (of the
\* directory iteration, or of getFile() for one listed file) reaches
\* handleFsError, which acts on NotAllowedError/SecurityError only
PollEnumerated(t, o) ==
    LET T == tasks[t] IN
    /\ T.kind = "poll" /\ T.pc = "enum"
    /\ o \in Outcomes /\ MayEnd(o, ~T.root)
    /\ CountFault(o, ~T.root)
    /\ CASE o = "ok" ->
              LET T1 == PollTask("enum", 0, collectLocalPaths, T.root, PassHist(T, o))
                  nextT == PollNext(T1, 1, localSnapshot, PassHist(T, o))
              IN  /\ PassAfter(t, nextT, FALSE)
                  /\ QuietAfter(FALSE, t, nextT, o)
                  /\ vfs' = PollVfs(vfs, T1, nextT)
                  /\ unseen' = PollUnseen(T1, nextT, localSnapshot)
                  /\ UNCHANGED <<syncState, syncError, pollIntervalId, leakedPollers,
                                 vfsWatcherStop, leakedWatchers>>
         [] o = "fail" ->
              /\ PassAfter(t, Idle, FALSE)
              /\ QuietAfter(FALSE, t, Idle, o)
              /\ UNCHANGED <<syncState, syncError, pollIntervalId, leakedPollers,
                             vfsWatcherStop, leakedWatchers, vfs, unseen>>
         [] o = "denied" ->
              /\ syncState' = "error"
              /\ syncError' = Revoked
              /\ cleanupWatchers(Watchers)
              /\ PassAfter(t, Idle, FALSE)
              /\ QuietAfter(FALSE, t, Idle, o)
              /\ UNCHANGED <<vfs, unseen>>
    /\ UNCHANGED <<directoryHandle, vfsSnapshot, localSnapshot, local, mtime, tree>>
    /\ UNCHANGED quiesced
    /\ UNCHANGED tracking
    /\ UNCHANGED syncProgress
    /\ UNCHANGED <<isSupported, input, digest, refused, cancelled, vain>>

\* `await readLocalFile(directoryHandle!, rel)` settles: echo check against
\* vfsSnapshot, else writeFile into the VFS
PollRead(t, o) ==
    LET T == tasks[t]
        p == PathSeq[T.i]
        forced == ~T.root \/ p \notin DOMAIN local
    IN
    /\ T.kind = "poll" /\ T.pc = "read"
    /\ o \in Outcomes /\ MayEnd(o, forced)
    /\ CountFault(o, forced)
    /\ IF o = "ok"
       THEN LET content == local[p].content
                hash == fnv1a(content)
                lsN == MapSet(localSnapshot, p, T.lm[p])
                h == [PassHist(T, o) EXCEPT
                        !.same = IF isEcho(p, hash) THEN @ \cup {p} ELSE @]
                nextT == PollNext(T, T.i + 1, lsN, h)
            IN  /\ localSnapshot' = lsN
                /\ unseen' = PollUnseen(T, nextT, lsN)
                /\ PassAfter(t, nextT, ~isEcho(p, hash))
                /\ IF isEcho(p, hash)
                   THEN /\ vfs' = PollVfs(vfs, T, nextT)
                        /\ QuietAfter(FALSE, t, nextT, o)
                        /\ UNCHANGED <<vfsSnapshot, vfsWatcherStop, leakedWatchers>>
                   ELSE /\ vfs' = PollVfs(writeVfsFile(vfs, p, content, "poll"), T, nextT)
                        /\ QuietAfter(TRUE, t, nextT, o)
                        /\ vfsSnapshot' = MapSet(vfsSnapshot, p, hash)
                        /\ vfsWatcherStop' = Arm(Watchers).cur
                        /\ leakedWatchers' = Arm(Watchers).leaked
       ELSE LET nextT == PollNext(T, T.i + 1, localSnapshot, PassHist(T, o))
            IN  /\ PassAfter(t, nextT, FALSE)
                /\ QuietAfter(FALSE, t, nextT, o)
                /\ vfs' = PollVfs(vfs, T, nextT)
                /\ unseen' = PollUnseen(T, nextT, localSnapshot)
                /\ UNCHANGED <<localSnapshot, vfsSnapshot, vfsWatcherStop,
                               leakedWatchers>>
    /\ UNCHANGED <<syncState, syncError, directoryHandle, pollIntervalId,
                   leakedPollers, local, mtime, tree>>
    /\ UNCHANGED quiesced
    /\ UNCHANGED tracking
    /\ UNCHANGED syncProgress
    /\ UNCHANGED <<isSupported, input, digest, refused, cancelled, vain>>

----------------------------------------------------------------------------
(* The world outside the engine: the user's other programs change the local *)
(* directory; the editor, the terminal and the agent change the VFS through *)
(* usePhp (writeFile, runArtisan), which increments vfsVersion.             *)

\* history: every initialSync under way notes that p changed from outside,
\* every steady-state pass in flight is upset
Touch(p) ==
    [t \in Slots |->
        IF tasks[t].kind = "init" /\ tasks[t].pc # "picker"
        THEN [tasks[t] EXCEPT !.ext = @ \cup {p}]
        ELSE Stir(tasks)[t]]

\* history: the top-level directories that are no longer there once the file
\* of p is removed, noted by every poll pass whose enumeration is under way
Vanished(ts, p) ==
    [t \in Slots |->
        IF /\ ts[t].kind = "poll" /\ ts[t].pc = "enum"
           /\ Len(p) > 1 /\ p[1] \notin SKIP_DIRS
           /\ \A q \in DOMAIN local : q # p => q[1] # p[1]
        THEN [ts[t] EXCEPT !.gone = @ \cup {p[1]}]
        ELSE ts[t]]

LocalEdit(p, c) ==
    /\ budget > 0 /\ p \in tree
    /\ local' = writeLocalFile(local, p, c, "ext")
    /\ mtime' = [mtime EXCEPT ![p] = @ + 1]
    /\ budget' = budget - 1
    /\ tasks' = Touch(p)
    /\ UNCHANGED <<syncState, syncError, directoryHandle, pollIntervalId,
                   leakedPollers, vfsWatcherStop, leakedWatchers, syncLock,
                   vfsSnapshot, localSnapshot, vfs, tree>>
    /\ UNCHANGED unseen
    /\ UNCHANGED quiesced
    /\ quiet' = {}
    /\ UNCHANGED tracking
    /\ UNCHANGED syncProgress
    /\ UNCHANGED <<isSupported, input, digest, refused, cancelled, vain>>

LocalDelete(p) ==
    /\ budget > 0 /\ p \in tree
    /\ p \in DOMAIN local
    /\ local' = MapDelete(local, p)
    /\ budget' = budget - 1
    /\ tasks' = Vanished(Touch(p), p)
    /\ UNCHANGED <<syncState, syncError, directoryHandle, pollIntervalId,
                   leakedPollers, vfsWatcherStop, leakedWatchers, syncLock,
                   vfsSnapshot, localSnapshot, vfs, mtime, tree>>
    /\ UNCHANGED unseen
    /\ UNCHANGED quiesced
    /\ quiet' = {}
    /\ UNCHANGED tracking
    /\ UNCHANGED syncProgress
    /\ UNCHANGED <<isSupported, input, digest, refused, cancelled, vain>>

VfsEdit(p, c) ==
    /\ budget > 0 /\ p \in tree
    /\ vfs' = writeVfsFile(vfs, p, c, "ext")
    /\ vfsWatcherStop' = Arm(Watchers).cur
    /\ leakedWatchers' = Arm(Watchers).leaked
    /\ budget' = budget - 1
    /\ tasks' = Touch(p)
    /\ UNCHANGED <<syncState, syncError, directoryHandle, pollIntervalId,
                   leakedPollers, syncLock, vfsSnapshot, localSnapshot, local,
                   mtime, tree>>
    /\ UNCHANGED unseen
    /\ UNCHANGED quiesced
    /\ quiet' = {}
    /\ UNCHANGED tracking
    /\ UNCHANGED syncProgress
    /\ UNCHANGED <<isSupported, input, digest, refused, cancelled, vain>>

VfsDelete(p) ==
    /\ budget > 0 /\ p \in tree
    /\ p \in DOMAIN vfs
    /\ vfs' = MapDelete(vfs, p)
    /\ vfsWatcherStop' = Arm(Watchers).cur
    /\ leakedWatchers' = Arm(Watchers).leaked
    /\ budget' = budget - 1
    /\ tasks' = Touch(p)
    /\ UNCHANGED <<syncState, syncError, directoryHandle, pollIntervalId,
                   leakedPollers, syncLock, vfsSnapshot, localSnapshot, local,
                   mtime, tree>>
    /\ UNCHANGED unseen
    /\ UNCHANGED quiesced
    /\ quiet' = {}
    /\ UNCHANGED tracking
    /\ UNCHANGED syncProgress
    /\ UNCHANGED <<isSupported, input, digest, refused, cancelled, vain>>

----------------------------------------------------------------------------

Next ==
    \/ connect
    \/ disconnect
    \/ \E t \in Slots, o \in {"ok", "abort", "fail"} : PickerSettles(t, o)
    \/ \E t \in Slots, o \in Outcomes : InitEnumerated(t, o)
    \/ \E t \in Slots, o \in Outcomes : InitRead(t, o)
    \/ \E t \in Slots, o \in Outcomes : InitWrite(t, o)
    \/ \E t \in Slots, o \in Outcomes : InitReadback(t, o)
    \/ \E which \in {"cur", "leaked"} : DebounceElapses(which)
    \/ \E t \in Slots, o \in Outcomes : PushWrite(t, o)
    \/ \E t \in Slots, o \in Outcomes : PushReadback(t, o)
    \/ \E t \in Slots, o \in Outcomes : PushRemove(t, o)
    \/ PollTick
    \/ \E t \in Slots, o \in Outcomes : PollEnumerated(t, o)
    \/ \E t \in Slots, o \in Outcomes : PollRead(t, o)
    \/ \E p \in Paths, c \in Contents : LocalEdit(p, c)
    \/ \E p \in Paths : LocalDelete(p)
    \/ \E p \in Paths, c \in Contents : VfsEdit(p, c)
    \/ \E p \in Paths : VfsDelete(p)

Spec == Init /\ [][Next]_vars

SpecRerun == InitRerun /\ [][Next]_vars

SpecPair == InitPair /\ [][Next]_vars

SpecExcluded == InitExcluded /\ [][Next]_vars

SpecNested == InitNested /\ [][Next]_vars

\* the awaited operation of slot t settles, and no failure is brought about
\* from outside (an operation that cannot succeed still fails)
EngineStep(t) ==
    /\ \E o \in Outcomes :
          \/ InitEnumerated(t, o) \/ InitRead(t, o) \/ InitWrite(t, o)
          \/ InitReadback(t, o)
          \/ PushWrite(t, o) \/ PushReadback(t, o) \/ PushRemove(t, o)
          \/ PollEnumerated(t, o) \/ PollRead(t, o)
    /\ UNCHANGED budget

\* A session that nobody disconnects, whose local-store operations fail only
\* where they cannot succeed and whose VFS listings are complete
NextCalm ==
    \/ connect
    \/ \E t \in Slots : PickerSettles(t, "ok")
    \/ \E t \in Slots : EngineStep(t)
    \/ \E which \in {"cur", "leaked"} : DebounceElapsesOn(which, {})
    \/ PollTick
    \/ \E p \in Paths, c \in Contents : LocalEdit(p, c)
    \/ \E p \in Paths : LocalDelete(p)
    \/ \E p \in Paths, c \in Contents : VfsEdit(p, c)
    \/ \E p \in Paths : VfsDelete(p)

\* setInterval and setTimeout callbacks run when they are due, the picker is
\* answered, and every awaited operation settles
SpecCalm ==
    /\ InitCalm /\ [][NextCalm]_vars
    /\ WF_vars(PollTick)
    /\ \A which \in {"cur", "leaked"} : WF_vars(DebounceElapsesOn(which, {}))
    /\ \A t \in Slots : WF_vars(PickerSettles(t, "ok"))
    /\ \A t \in Slots : WF_vars(EngineStep(t))

\* connect(), initialSync and disconnect() alone, over directories of files
\* whose contents play no part
NextProgress ==
    \/ connect
    \/ disconnect
    \/ \E t \in Slots, o \in {"ok", "abort", "fail"} : PickerSettles(t, o)
    \/ \E t \in Slots, n \in Totals : BulkEnumerated(t, n)
    \/ \E t \in Slots : BulkStep(t)

SpecProgress == InitProgress /\ [][NextProgress]_vars

\* one more byte in the array to be hashed
Feed(b) ==
    /\ Len(input) < MaxBytes
    /\ input' = Append(input, b)
    /\ digest' = <<>>
    /\ UNCHANGED <<syncState, syncError, directoryHandle, pollIntervalId,
                   leakedPollers, vfsWatcherStop, leakedWatchers, syncLock,
                   vfsSnapshot, localSnapshot, vfs, local, mtime, tasks, unseen,
                   tracking, quiet, quiesced, tree, budget, syncProgress,
                   isSupported, refused, cancelled, vain>>

\* const hash = fnv1a(content)
Fingerprint ==
    /\ digest = <<>>
    /\ digest' = fnv1a(input)
    /\ UNCHANGED <<syncState, syncError, directoryHandle, pollIntervalId,
                   leakedPollers, vfsWatcherStop, leakedWatchers, syncLock,
                   vfsSnapshot, localSnapshot, vfs, local, mtime, tasks, unseen,
                   tracking, quiet, quiesced, tree, budget, syncProgress,
                   isSupported, refused, cancelled, vain, input>>

\* fnv1a alone, over every array of up to MaxBytes bytes
NextFnv ==
    \/ \E b \in Bytes : Feed(b)
    \/ Fingerprint

SpecFnv == InitProgress /\ [][NextFnv]_vars

\* an awaited local-store operation of slot t settles without an error
EngineOk(t) ==
    /\ \/ InitEnumerated(t, "ok") \/ InitRead(t, "ok") \/ InitWrite(t, "ok")
       \/ InitReadback(t, "ok")
       \/ PushWrite(t, "ok") \/ PushReadback(t, "ok") \/ PushRemove(t, "ok")
       \/ PollEnumerated(t, "ok") \/ PollRead(t, "ok")
    /\ UNCHANGED budget

\* Runs in which no local-store operation fails and every VFS listing is
\* complete; connect() and disconnect() are called at any time
NextSound ==
    \/ connect
    \/ disconnect
    \/ \E t \in Slots : PickerSettles(t, "ok")
    \/ \E t \in Slots : EngineOk(t)
    \/ \E which \in {"cur", "leaked"} : DebounceElapsesOn(which, {})
    \/ PollTick
    \/ \E p \in Paths, c \in Contents : LocalEdit(p, c)
    \/ \E p \in Paths : LocalDelete(p)
    \/ \E p \in Paths, c \in Contents : VfsEdit(p, c)
    \/ \E p \in Paths : VfsDelete(p)

SpecSound == InitCalm /\ [][NextSound]_vars

\* two files in the local directory, one of them in a subdirectory, and the
\* virtual filesystem empty
InitGone ==
    /\ Boot({PathSeq[1], PathSeq[2]}, MaxEvents, FALSE)
    /\ vfs = EmptyMap
    /\ DOMAIN local = tree

\* A session whose local directory changes under it: files are edited and
\* removed from outside, and an enumeration may reject with an error that is
\* no permission error
NextGone ==
    \/ connect
    \/ \E t \in Slots : PickerSettles(t, "ok")
    \/ \E t \in Slots : EngineOk(t)
    \/ \E t \in Slots : PollEnumerated(t, "fail")
    \/ PollTick
    \/ \E p \in Paths, c \in Contents : LocalEdit(p, c)
    \/ \E p \in Paths : LocalDelete(p)

SpecGone == InitGone /\ [][NextGone]_vars

----------------------------------------------------------------------------
(* Properties *)

\* a pass is in flight in slot t: a steady-state pass between taking and
\* releasing the lock, or initialSync between its first and its last statement
InFlight(t) ==
    \/ tasks[t].kind \in {"push", "poll"}
    \/ tasks[t].kind = "init" /\ tasks[t].pc # "picker"

\* C1: at any time at most one pass (initial reconciliation, VFS->local or
\* local->VFS) is in flight.
C1_PassesSerialized == Cardinality({t \in Slots : InFlight(t)}) <= 1

\* initialSync of slot t returns with this step
InitReturns(t) ==
    /\ tasks[t].kind = "init"
    /\ tasks[t].pc \in {"enum", "read", "write", "readback"}
    /\ tasks'[t] = Idle
    /\ syncState' = "connected"

\* C2: when initial reconciliation completes, every path that it found in both
\* stores and that nothing outside the engine changed meanwhile still holds
\* the local file it found, and the VFS holds the same bytes.
C2_LocalWinsOnOverlap ==
    [][\A t \in Slots :
         (InitReturns(t) /\ tasks[t].pc # "enum") =>
            \A p \in ((DOMAIN tasks[t].lm) \cap tasks[t].vfsPaths) \ tasks[t].ext :
               /\ p \in DOMAIN local'
               /\ local'[p].lastModified = tasks[t].lm[p]
               /\ p \in DOMAIN vfs'
               /\ vfs'[p].content = local'[p].content]_vars

\* the poll pass of slot t awaits the bytes of a file that it will write into
\* the VFS if the read succeeds
PollWillWrite(t) ==
    LET T == tasks[t] IN
    /\ T.kind = "poll" /\ T.pc = "read"
    /\ PathSeq[T.i] \in DOMAIN local
    /\ ~(/\ PathSeq[T.i] \in DOMAIN vfsSnapshot
         /\ vfsSnapshot[PathSeq[T.i]] = fnv1a(local[PathSeq[T.i]].content))

\* the file that the poll pass of slot t is reading is as a VFS->local pass
\* wrote it, and the pass listed it after that write
PushedAndSeen(t) ==
    LET T == tasks[t] IN
    /\ local[PathSeq[T.i]].by = "push"
    /\ T.lm[PathSeq[T.i]] = local[PathSeq[T.i]].lastModified

\* C3: a poll pass that observes a file last written by a VFS->local pass,
\* with no change from outside since, does not write that path into the VFS.
C3_PollSkipsPushedFile ==
    [][\A t \in Slots :
         (PollWillWrite(t) /\ PollRead(t, "ok")) => ~PushedAndSeen(t)]_vars

\* C4: a VFS->local pass that begins after the poller wrote a path into the
\* VFS, the VFS file not having changed since, issues no local write for it.
C4_PushSkipsPolledFile ==
    \A t \in Slots :
       ~(tasks[t].kind = "push" /\ tasks[t].pc = "write" /\ tasks[t].echoed)

\* C5: a path that the VFS->local pass finds in vfsSnapshot but not in the VFS
\* is gone from the local store and from both snapshot maps once the pass has
\* dealt with it.
C5_VfsDeletionPropagates ==
    [][\A t \in Slots, o \in Outcomes :
         PushRemove(t, o) =>
            /\ PathSeq[tasks[t].i] \notin DOMAIN local'
            /\ PathSeq[tasks[t].i] \notin DOMAIN vfsSnapshot'
            /\ PathSeq[tasks[t].i] \notin DOMAIN localSnapshot']_vars

\* the VFS holds the same bytes, or as little, for p after the step
VfsSame(p) ==
    /\ p \in DOMAIN vfs <=> p \in DOMAIN vfs'
    /\ p \in DOMAIN vfs => vfs'[p].content = vfs[p].content

\* C6: only the world outside removes a VFS entry, and while a path has no
\* local file no step of the engine changes what the VFS holds for it.
C6_LocalDeletionStaysLocal ==
    [][\A p \in Paths :
         /\ (p \in DOMAIN vfs /\ p \notin DOMAIN vfs') => VfsDelete(p)
         /\ (p \notin DOMAIN local /\ p \in DOMAIN vfs /\ ~VfsSame(p)) =>
               (VfsDelete(p) \/ \E c \in Contents : VfsEdit(p, c))]_vars

\* C6 witness: connected, a poll pass has finished without listing a path it
\* knew; the path has no local file and the VFS still holds it.
C6_Witness ==
    /\ syncState = "connected"
    /\ \E p \in unseen : p \notin DOMAIN local /\ p \in DOMAIN vfs

ValidTransitions ==
    { <<"disconnected", "syncing-initial">>, <<"syncing-initial", "connected">>,
      <<"syncing-initial", "error">>, <<"connected", "error">>,
      <<"error", "syncing-initial">>, <<"connected", "disconnected">>,
      <<"error", "disconnected">> }

\* C7: syncState changes only along the listed transitions.
C7_OnlyValidTransitions ==
    [][syncState' # syncState => <<syncState, syncState'>> \in ValidTransitions]_vars

\* a local-store operation of the steady-state pass of slot t ends with a
\* permission error
DeniedInPass(t) ==
    \/ PollEnumerated(t, "denied")
    \/ PollRead(t, "denied")
    \/ PushWrite(t, "denied")
    \/ PushReadback(t, "denied")
    \/ PushRemove(t, "denied")

\* C8: a permission error of any local-store operation of a steady-state pass
\* puts the state to error and stops the interval and the watcher.
C8_PermissionLossHaltsLoops ==
    [][\A t \in Slots :
         DeniedInPass(t) =>
            /\ syncState' = "error"
            /\ ~pollIntervalId'
            /\ vfsWatcherStop' = "none"]_vars

\* initialSync of slot t returns with this step, no operation of it failed
InitReturnsClean(t) ==
    /\ InitReturns(t)
    /\ ~tasks[t].failed
    /\ \/ InitEnumerated(t, "ok")
       \/ InitRead(t, "ok")
       \/ InitReadback(t, "ok")

\* C9: a connect() made in the error state that a permission loss left, whose
\* picker and initial reconciliation meet no failure, ends connected with
\* exactly one interval and one watcher running.
C9_RetryRestoresOneSession ==
    [][\A t \in Slots :
         (InitReturnsClean(t) /\ tasks[t].retry) =>
            /\ syncState' = "connected"
            /\ (IF pollIntervalId' THEN 1 ELSE 0) + leakedPollers' = 1
            /\ (IF vfsWatcherStop' # "none" THEN 1 ELSE 0) + leakedWatchers'.n = 1]_vars

\* C10: a debounce timer that elapses while a pass holds the lock stays owed:
\* the watcher's timer is still armed after the step.
C10_ElapsedTimerWaits ==
    [][\A which \in {"cur", "leaked"} :
         (syncLock /\ (\E t \in Slots : InFlight(t)) /\ DebounceElapses(which)) =>
            /\ which = "cur" => vfsWatcherStop' = "pending"
            /\ which = "leaked" => leakedWatchers'.armed = leakedWatchers.armed]_vars

\* the debounce timers armed at this moment, over every subscribed watcher
ArmedTimers ==
    (IF vfsWatcherStop = "pending" THEN 1 ELSE 0) + leakedWatchers.armed

\* C11: however many version increments have arrived, at most one debounce
\* timer is armed, and the elapse of a timer in a session that holds a
\* directory runs a VFS->local pass: one burst of increments causes exactly
\* one pass.
C11_OnePassPerBurst ==
    [][/\ ArmedTimers' <= 1
       /\ \A which \in {"cur", "leaked"} :
             (DebounceElapses(which) /\ directoryHandle) => ~syncLock]_vars

\* C15: initialSync never returns into 'connected' when one of its awaited
\* operations has failed.
C15_FailedInitNeverConnects ==
    [][\A t \in Slots : InitReturns(t) => InitReturnsClean(t)]_vars

\* the state becomes error through a failed initial reconciliation or through
\* a permission error that reaches handleFsError
UnrecoverableFailure ==
    /\ syncState' = "error"
    /\ \/ \E t \in Slots : PollEnumerated(t, "denied")
       \/ \E t \in Slots, o \in {"fail", "denied"} : InitEnumerated(t, o)

\* C17: when the state becomes error through an unrecoverable failure the
\* directory handle is released and both snapshot maps are empty.
C17_ErrorDiscardsSession ==
    [][UnrecoverableFailure =>
          /\ ~directoryHandle'
          /\ vfsSnapshot' = EmptyMap
          /\ localSnapshot' = EmptyMap]_vars

\* a steady-state pass is in flight in some slot
SteadyPassInFlight == \E t \in Slots : tasks[t].kind \in {"push", "poll"}

\* C18: the lock is never held with no steady-state pass in flight.
C18_LockReleasedOnEveryExit == syncLock => SteadyPassInFlight

\* C18 witness: a poll pass has ended through its enumeration throwing a
\* permission error; no pass is in flight and the lock is free.
C18_Witness ==
    /\ syncState = "error" /\ syncError = Revoked
    /\ ~SteadyPassInFlight
    /\ ~syncLock

\* C20: a steady-state pass in flight hands the directory it started with to
\* every local-store operation it goes on to make.
C20_InFlightPassKeepsDirectory ==
    \A t \in Slots : tasks[t].kind \in {"push", "poll"} => tasks[t].root

\* C19: once disconnect() has returned, and until connect() is called again,
\* the state is disconnected, no directory is held, no interval and no
\* subscription is left, so that no pass can start.  (A connect() whose picker
\* is still open when disconnect() returns counts as called again.)
C19_DisconnectStopsEverything ==
    quiesced =>
       /\ syncState = "disconnected"
       /\ ~directoryHandle
       /\ ~pollIntervalId /\ leakedPollers = 0
       /\ vfsWatcherStop = "none" /\ leakedWatchers.n = 0

\* the pass of slot t takes a step: one of its awaited operations settles
PassSteps(t) ==
    \E o \in Outcomes :
       \/ PushWrite(t, o) \/ PushReadback(t, o) \/ PushRemove(t, o)
       \/ PollEnumerated(t, o) \/ PollRead(t, o)

\* C12: a steady-state pass that began after a run of its kind had ended, with
\* no change to either store since that run ended, writes to neither store
\* and leaves both snapshot maps as they are.
C12_SecondRunChangesNothing ==
    [][\A t \in Slots :
         (/\ tasks[t].kind \in {"push", "poll"}
          /\ tasks[t].again /\ tasks[t].kind \in quiet
          /\ PassSteps(t)) =>
            UNCHANGED <<vfs, local, vfsSnapshot, localSnapshot>>]_vars

\* the awaited operation a task is suspended at is on path p
OperatesOn(T, p) ==
    /\ T.kind \in {"init", "push", "poll"}
    /\ T.pc \in {"read", "write", "readback", "remove"}
    /\ PathSeq[T.i] = p

\* C13: a path whose first segment is vendor, node_modules or .git is never
\* the target of an operation of the engine, never a key of either snapshot
\* map, and is written or removed in either store by nobody but the
\* environment.
C13_ExcludedPathsUntouched ==
    [][\A p \in Paths : p[1] \in SKIP_DIRS =>
          /\ p \notin DOMAIN vfsSnapshot' /\ p \notin DOMAIN localSnapshot'
          /\ \A t \in Slots : ~OperatesOn(tasks'[t], p)
          /\ p \in DOMAIN vfs' => vfs'[p].by = "ext"
          /\ p \in DOMAIN local' => local'[p].by = "ext"
          /\ (p \in DOMAIN vfs /\ p \notin DOMAIN vfs') => VfsDelete(p)
          /\ (p \in DOMAIN local /\ p \notin DOMAIN local') => LocalDelete(p)]_vars

\* C13 witness: connect() is the only event so far and the initial pass has
\* run to the end: it copied the ordinary file from the VFS to the local
\* directory and left the excluded file, present in the VFS only, where it was.
C13_Witness ==
    /\ syncState = "connected" /\ budget = MaxEvents - 2
    /\ PathSeq[1] \in DOMAIN local /\ local[PathSeq[1]].by = "init"
    /\ \E p \in DOMAIN vfs : p[1] \in SKIP_DIRS /\ p \notin DOMAIN local

\* C14: when the initial pass has enumerated both sides, a file of the local
\* directory is among the local paths it goes on with exactly when its first
\* segment is not excluded, and a file of the VFS is among the VFS paths it
\* goes on with under the same condition.
C14_SamePolicyBothSides ==
    [][\A t \in Slots :
         (InitEnumerated(t, "ok") /\ tasks'[t].kind = "init") =>
            /\ \A p \in DOMAIN local :
                  p \in DOMAIN tasks'[t].lm <=> p[1] \notin SKIP_DIRS
            /\ \A p \in DOMAIN vfs :
                  p \in tasks'[t].vfsPaths <=> p[1] \notin SKIP_DIRS]_vars

\* the local files a poll pass has something to do for: listed, not skipped,
\* and with a lastModified that is not the one in localSnapshot
PendingLocal ==
    {p \in DOMAIN collectLocalPaths :
        /\ ~shouldSkip(p)
        /\ ~(p \in DOMAIN localSnapshot /\ localSnapshot[p] = collectLocalPaths[p])}

\* C16: when, in a poll pass over a directory of two files or more, reading
\* one file's timestamp fails with an error that is not a permission error,
\* the pass still goes on to a file that is pending and the state does not
\* change.
C16_FailureSkipsOnePathOnly ==
    [][\A t \in Slots :
         (/\ PollEnumerated(t, "fail") /\ tasks[t].root
          /\ \E p \in PendingLocal : \E q \in DOMAIN local : q # p) =>
            /\ tasks'[t].kind = "poll"
            /\ syncState' = syncState]_vars

\* the intervals that are running, and the watch subscriptions that exist
Pollers == (IF pollIntervalId THEN 1 ELSE 0) + leakedPollers
Subscriptions == (IF vfsWatcherStop # "none" THEN 1 ELSE 0) + leakedWatchers.n

\* C21: after any sequence of connect() and disconnect() calls at most one
\* interval is running and at most one subscription exists, and whenever the
\* module holds no directory (after disconnect()) none is left.
C21_OneSessionAtATime ==
    /\ Pollers <= 1
    /\ Subscriptions <= 1
    /\ (syncState = "disconnected" /\ ~directoryHandle) =>
          (Pollers = 0 /\ Subscriptions = 0)

\* C22: a poll tick or an elapsed debounce timer that fires while the state is
\* not connected, or while a pass is in flight, starts no pass and leaves both
\* stores, both snapshot maps, the lock and the state as they are.
C22_TickOutsideSessionIsNoOp ==
    [][((PollTick \/ \E which \in {"cur", "leaked"} : DebounceElapses(which))
          /\ (syncState # "connected" \/ \E t \in Slots : InFlight(t))) =>
            UNCHANGED <<tasks, vfs, local, vfsSnapshot, localSnapshot, syncLock,
                        syncState>>]_vars

\* C23: where the directory picker is absent, whatever calls are made, the
\* state stays disconnected with no error message, no directory is held, no
\* interval and no subscription exists, both snapshot maps are empty and no
\* initial reconciliation is begun.
C23_UnsupportedChangesNothing ==
    ~isSupported =>
       /\ syncState = "disconnected" /\ syncError = ""
       /\ ~directoryHandle
       /\ Pollers = 0 /\ Subscriptions = 0
       /\ vfsSnapshot = EmptyMap /\ localSnapshot = EmptyMap
       /\ \A t \in Slots : tasks[t] = Idle

\* C23 witness: connect() has been called where the picker is absent and has
\* returned at its first line.
C23_Witness == ~isSupported /\ refused

\* the initial reconciliation of slot t is under way before and after the step
GoesOn(t) ==
    /\ tasks[t].kind = "init" /\ tasks[t].pc # "picker"
    /\ tasks'[t].kind = "init"

\* C24: syncProgress is always within [0,1]; while the state is syncing-initial
\* and an initial reconciliation goes on, it does not decrease; and it is 1
\* when an initial reconciliation returns.
C24_ProgressNeverDecreases ==
    [][/\ Leq(Zero, syncProgress') /\ Leq(syncProgress', One)
       /\ \A t \in Slots :
            (syncState = "syncing-initial" /\ syncState' = "syncing-initial" /\ GoesOn(t))
               => Leq(syncProgress, syncProgress')
       /\ \A t \in Slots :
            (tasks[t].kind = "init" /\ tasks[t].pc # "picker" /\ tasks'[t] = Idle
               /\ syncState' = "connected") => syncProgress' = One]_vars

\* every path that is not skipped and is present in both stores has the same
\* bytes in both
Agree ==
    \A p \in (DOMAIN vfs) \cap (DOMAIN local) :
       ~shouldSkip(p) => vfs[p].content = local[p].content

\* C25: in a session that stays connected and meets no I/O failure, with
\* timers that run when due, from some moment on (the changes from outside
\* having stopped) the two stores agree on every path they both hold.
C25_Convergence == <>[](syncState = "connected" => Agree)

\* C26: a poll pass never writes into the VFS a path that the VFS does not
\* hold from a local file that the deletion loop of a VFS->local pass has left
\* behind and that nothing has changed since.
C26_NoResurrection ==
    [][\A t \in Slots :
         (PollWillWrite(t) /\ PollRead(t, "ok")) =>
            ~(/\ PathSeq[tasks[t].i] \notin DOMAIN vfs
              /\ local[PathSeq[tasks[t].i]].by = "kept")]_vars

\* C27: the deletion loop of a VFS->local pass never removes the local file of
\* a path that the VFS holds and that the listing of the pass has missed.
C27_RemovesOnlyAbsent ==
    [][\A t \in Slots :
         (/\ PushRemove(t, "ok")
          /\ PathSeq[tasks[t].i] \in DOMAIN local
          /\ PathSeq[tasks[t].i] \notin DOMAIN local') =>
            ~(/\ PathSeq[tasks[t].i] \in tasks[t].hid
              /\ PathSeq[tasks[t].i] \in DOMAIN vfs)]_vars

\* a step of the world outside on either store
OutsideChange ==
    \/ \E p \in Paths, c \in Contents : LocalEdit(p, c) \/ VfsEdit(p, c)
    \/ \E p \in Paths : LocalDelete(p) \/ VfsDelete(p)

\* C28: from the return of disconnect() until connect() is called again, no
\* step but one of the world outside changes the VFS or the local store, both
\* snapshot maps stay empty, the lock stays free and the state stays
\* disconnected.
C28_NothingAfterDisconnect ==
    [][(quiesced /\ quiesced') =>
          /\ (vfs' # vfs \/ local' # local) => OutsideChange
          /\ vfsSnapshot' = EmptyMap /\ localSnapshot' = EmptyMap
          /\ ~syncLock'
          /\ syncState' = "disconnected"]_vars

\* C29: when an initial reconciliation returns, none of its operations having
\* failed and nothing outside the engine having changed a path meanwhile,
\* every path that it found in either store is in both stores with the same
\* bytes (the local file as found, for a path found locally) and is a key of
\* vfsSnapshot, holding the fingerprint of those bytes, and of localSnapshot.
C29_InitialSyncReconciles ==
    [][\A t \in Slots :
         (InitReturnsClean(t) /\ tasks[t].ext = {}) =>
            \A p \in (DOMAIN tasks[t].lm) \cup tasks[t].vfsPaths :
               /\ p \in DOMAIN local' /\ p \in DOMAIN vfs'
               /\ vfs'[p].content = local'[p].content
               /\ p \in DOMAIN tasks[t].lm => local'[p].lastModified = tasks[t].lm[p]
               /\ p \in DOMAIN vfsSnapshot'
               /\ vfsSnapshot'[p] = fnv1a(vfs'[p].content)
               /\ p \in DOMAIN localSnapshot']_vars

\* the local file of p is one that the world outside has written and that
\* neither snapshot map accounts for, in a connected session
Owed(p) ==
    /\ syncState = "connected"
    /\ p \in DOMAIN local /\ local[p].by = "ext"
    /\ ~shouldSkip(p) /\ LocalListed(p)
    /\ ~(p \in DOMAIN localSnapshot /\ localSnapshot[p] = local[p].lastModified)
    /\ ~(p \in DOMAIN vfsSnapshot /\ vfsSnapshot[p] = fnv1a(local[p].content))

\* the VFS holds the local bytes of p and both snapshot maps have an entry
\* for p, the fingerprint being that of those bytes
Synced(p) ==
    /\ p \in DOMAIN local /\ p \in DOMAIN vfs
    /\ vfs[p].content = local[p].content
    /\ p \in DOMAIN vfsSnapshot /\ vfsSnapshot[p] = fnv1a(local[p].content)
    /\ p \in DOMAIN localSnapshot

\* C30: in a session that stays connected and meets no I/O failure, with an
\* interval that fires when due, a local file written from outside that
\* neither snapshot map accounts for is in the end in the VFS with the local
\* bytes and in both maps, unless it is deleted first.
C30_LocalEditReachesVfs ==
    \A p \in Paths :
       Owed(p) ~> (Synced(p) \/ p \notin DOMAIN local \/ syncState # "connected")

\* C31: when a poll pass has read a file whose bytes have the fingerprint that
\* vfsSnapshot holds for its path, it sets the localSnapshot entry of the path
\* to the timestamp it listed and leaves the VFS, vfsSnapshot and every
\* debounce timer (no version increment) as they are.
C31_EchoTouchesTimestampOnly ==
    [][\A t \in Slots :
         (/\ tasks[t].kind = "poll" /\ tasks[t].pc = "read"
          /\ PathSeq[tasks[t].i] \in DOMAIN local
          /\ ~PollWillWrite(t)
          /\ PollRead(t, "ok")) =>
            /\ UNCHANGED <<vfs, vfsSnapshot, vfsWatcherStop, leakedWatchers>>
            /\ localSnapshot' = MapSet(localSnapshot, PathSeq[tasks[t].i],
                                       tasks[t].lm[PathSeq[tasks[t].i]])]_vars

\* C31 witness: a poll pass has met such a file, whose timestamp was not the
\* one on record, and has gone on to the next path; the file's timestamp is
\* now on record and the VFS copy is not the poller's.
C31_Witness ==
    \E t \in Slots : \E p \in Paths :
       /\ tasks[t].kind = "poll" /\ p \in tasks[t].same
       /\ p \in DOMAIN local /\ local[p].by = "ext"
       /\ p \in DOMAIN localSnapshot /\ localSnapshot[p] = local[p].lastModified
       /\ p \in DOMAIN vfs /\ vfs[p].by # "poll"

\* C32: whenever the state is connected the module holds a directory, an
\* interval id and the stop function of a watcher.
C32_ConnectedHasSession ==
    syncState = "connected" =>
       /\ directoryHandle
       /\ pollIntervalId
       /\ vfsWatcherStop # "none"

\* C33: in a run without I/O failures, whenever no pass is in flight the two
\* snapshot maps have the same set of keys.
C33_SnapshotsSameKeys ==
    (\A t \in Slots : ~InFlight(t)) =>
        DOMAIN vfsSnapshot = DOMAIN localSnapshot

\* C34: the state is error exactly when the error message is not empty.
C34_ErrorIffMessage == (syncState = "error") <=> (syncError # "")

\* C35: when the enumeration of a poll pass rejects because a directory has
\* been removed while it was under way, the pass is not aborted: it goes on
\* to a file that is pending, and the state does not change.
C35_VanishedDirectoryListsEmpty ==
    [][\A t \in Slots :
         (/\ tasks[t].kind = "poll" /\ tasks[t].pc = "enum"
          /\ tasks[t].root /\ tasks[t].gone # {}
          /\ PendingLocal # {}
          /\ PollEnumerated(t, "fail")) =>
            /\ tasks'[t].kind = "poll" /\ tasks'[t].pc = "read"
            /\ PathSeq[tasks'[t].i] \in PendingLocal
            /\ syncState' = syncState]_vars

\* an awaited local-store operation of slot t rejects with o and the rejection
\* is caught
Caught(t, o) ==
    \/ InitEnumerated(t, o) \/ InitRead(t, o) \/ InitWrite(t, o)
    \/ InitReadback(t, o)
    \/ PushWrite(t, o) \/ PushReadback(t, o) \/ PushRemove(t, o)
    \/ PollEnumerated(t, o) \/ PollRead(t, o)

\* the catch block the rejection lands in calls console.warn
Warned(t, o) ==
    \/ InitRead(t, o) \/ InitWrite(t, o) \/ InitReadback(t, o)
    \/ PushWrite(t, o) \/ PushReadback(t, o)
    \/ PollRead(t, o)

\* C36: every caught failure of a local-store operation leaves a record: a
\* warning on the console, or the state error with a message.
C36_NoFailureDropped ==
    [][\A t \in Slots : \A o \in {"fail", "denied"} :
          Caught(t, o) =>
             \/ Warned(t, o)
             \/ syncState' = "error" /\ syncError' # ""]_vars

\* C37: a connect() whose picker is cancelled changes nothing: neither the
\* call up to the picker nor its return on AbortError touches the state, the
\* error message, the progress, the directory handle, the timers, the lock or
\* the snapshot maps.
C37_CancelChangesNothing ==
    [][(connect \/ \E t \in Slots : PickerSettles(t, "abort")) =>
          UNCHANGED <<syncState, syncError, syncProgress, directoryHandle,
                      pollIntervalId, leakedPollers, vfsWatcherStop,
                      leakedWatchers, syncLock, vfsSnapshot, localSnapshot,
                      vfs, local>>]_vars

\* C37 witness: connect() has returned from a cancelled picker in state error,
\* and the state is error with its message still.
C37_Witness ==
    /\ cancelled = "error"
    /\ syncState = "error" /\ syncError = "Failed to open directory"
    /\ \A t \in Slots : tasks[t] = Idle

Pow2 == <<1, 2, 4, 8, 16, 32, 64, 128>>

\* a XOR b for two bytes, bit i upwards
RECURSIVE XorByte(_, _, _)
XorByte(a, b, i) ==
    IF i > 8 THEN 0
    ELSE Pow2[i] * (((a \div Pow2[i]) + (b \div Pow2[i])) % 2) + XorByte(a, b, i + 1)

\* 2166136261 and 16777619 in base 256, least significant digit first
OffsetDigits == <<197, 157, 28, 129>>
PrimeDigits == <<147, 1, 0, 1>>

\* (a * PrimeDigits) mod 2^32 by long multiplication in base 256
TimesPrime(a) ==
    LET p == PrimeDigits
        t1 == a[1] * p[1]
        t2 == a[1] * p[2] + a[2] * p[1] + t1 \div 256
        t3 == a[1] * p[3] + a[2] * p[2] + a[3] * p[1] + t2 \div 256
        t4 == a[1] * p[4] + a[2] * p[3] + a[3] * p[2] + a[4] * p[1] + t3 \div 256
    IN  <<t1 % 256, t2 % 256, t3 % 256, t4 % 256>>

\* h := ((h XOR byte) * 16777619) mod 2^32 over data[i..], from h
RECURSIVE FoldDigits(_, _, _)
FoldDigits(h, data, i) ==
    IF i > Len(data) THEN h
    ELSE FoldDigits(TimesPrime(<<XorByte(h[1], data[i], 1), h[2], h[3], h[4]>>),
                    data, i + 1)

\* the four digits as <<high 16 bits, low 16 bits>>
Halves(d) == <<d[4] * 256 + d[3], d[2] * 256 + d[1]>>

\* C39: the fingerprint of a byte array is a 32-bit unsigned value, the one
\* obtained by folding h := ((h XOR byte) * 16777619) mod 2^32 over the bytes
\* from h = 2166136261; the empty array yields 2166136261.
C39_Fnv1aIsTheFold ==
    digest # <<>> =>
       /\ digest[1] \in 0..65535 /\ digest[2] \in 0..65535
       /\ digest = Halves(FoldDigits(OffsetDigits, input, 1))
       /\ input = <<>> => digest = Halves(OffsetDigits)

\* C39 witness: the one-byte array 0x61 has been hashed to 0xE40C292C.
C39_Witness == input = <<97>> /\ digest = <<58380, 10540>>

====
